---------------------------- MODULE Spec2Model ----------------------------
(***************************************************************************)
(* The plans router (src/src/modules/plans/router.ts): plans.get,          *)
(* plans.getUpgrade, plans.create and plans.update over the tables teams,  *)
(* subscriptions, subscriptionActivations, plans and users.                *)
(*                                                                         *)
(* Tables are sequences of rows in storage order; findFirst returns the    *)
(* first row that matches.  Time is in milliseconds, as Date.valueOf().    *)
(* Prices are the integers of PlanInputs; (priceDifference / 30) * days is *)
(* kept as an exact fraction, floating point is not modelled.  The         *)
(* createdAt / updatedAt columns of a plan are left out: no operation of   *)
(* the router reads them.  A storage fault is modelled where the router    *)
(* handles it (the try/catch of plans.get).                                *)
(*                                                                         *)
(* res is the answer to the request just served; it is forgotten when the  *)
(* storage or the clock moves other than by a procedure of the router.     *)
(*                                                                         *)
(* Spec runs every procedure as one step.  SpecPlans is the administration *)
(* of the plans alone (get, create, update).  SpecConc runs getUpgrade one *)
(* await at a time, so that the clock and plans.update can move between    *)
(* its reads.                                                              *)
(***************************************************************************)
EXTENDS Integers, Sequences, FiniteSets

VARIABLES users, teams, subscriptions, subscriptionActivations, plans, now,
          res, call

vars == <<users, teams, subscriptions, subscriptionActivations, plans, now,
          res, call>>

storage == <<users, teams, subscriptions, subscriptionActivations, plans>>

(* ------------------------------ bounds -------------------------------- *)

MaxPlans == 2
MaxActivations == 2

\* The ids of the rows that can exist in teams and in subscriptions: one
\* team, and its one subscription (a team has one subscription at a time).
TeamIds == {1}
SubscriptionIds == {1}

\* Authenticated identities: user 1 is registered, user 2 has no user row.
Callers == {1, 2}

\* Inputs of create / update, the plans of the tests
\* (z.number().nonnegative() holds of each price).
QuotedPlanInputs ==
    { [name |-> "Plus",    monthlyPrice |-> 59,  yearlyPrice |-> 599],
      [name |-> "Premium", monthlyPrice |-> 199, yearlyPrice |-> 1999] }

PlanInputs ==
    QuotedPlanInputs \cup
    { [name |-> "Starter", monthlyPrice |-> 19, yearlyPrice |-> 179],
      [name |-> "Basic",   monthlyPrice |-> 29, yearlyPrice |-> 279] }

\* A request names an existing team or a missing one (the test's teamId: 1
\* before any team exists), an existing plan or a missing one (planId: 12).
TeamIdInputs == TeamIds \cup {2}
PlanIdInputs == 1 .. (MaxPlans + 1)

DayMs == 24 * 60 * 60 * 1000
HalfDayMs == DayMs \div 2

\* The instants the clock is observed at.
ClockPoints == {0, 1, HalfDayMs + 1, 2 * DayMs}

\* Length of a paid window, in days (the test's daysRemaining is 14).
ShortActivationDays == {1}
ActivationDays == ShortActivationDays \cup {14}

(* ------------------------------ helpers ------------------------------- *)

\* What findFirst returns when no row matches.
Undefined == [undefined |-> TRUE]

Min(S) == CHOOSE x \in S : \A y \in S : x <= y

\* throw new trpcError({ code, message })
trpcError(code, message) ==
    [code |-> code, message |-> message, value |-> Undefined]

\* return value
Ok(value) == [code |-> "OK", message |-> "", value |-> value]

NoResult == Ok(Undefined)

\* The answer to the request just served: the procedure, the caller and
\* input of a getUpgrade, and what was returned or thrown.  It is there
\* until the storage or the clock moves again.
Response(op, args, out) == [op |-> op, args |-> args, out |-> out]

NoResponse == Response("none", <<>>, NoResult)

\* db.query.teams.findFirst({ where: eq(teams.id, teamId) })
FindTeam(rows, teamId) ==
    LET hit == {i \in DOMAIN rows : rows[i].id = teamId}
    IN  IF hit = {} THEN Undefined ELSE rows[Min(hit)]

\* db.query.subscriptions.findFirst({ where: eq(subscriptions.teamId, teamId) })
FindSubscription(rows, teamId) ==
    LET hit == {i \in DOMAIN rows : rows[i].teamId = teamId}
    IN  IF hit = {} THEN Undefined ELSE rows[Min(hit)]

\* findFirst({ where: and(eq(subscriptionId, id), gte(lastActiveDate, new Date())) })
FindActivation(rows, subscriptionId, date) ==
    LET hit == {i \in DOMAIN rows :
                    /\ rows[i].subscriptionId = subscriptionId
                    /\ rows[i].lastActiveDate >= date}
    IN  IF hit = {} THEN Undefined ELSE rows[Min(hit)]

\* db.query.plans.findFirst({ where: eq(plans.id, planId) })
FindPlan(rows, planId) ==
    LET hit == {i \in DOMAIN rows : rows[i].id = planId}
    IN  IF hit = {} THEN Undefined ELSE rows[Min(hit)]

\* db.query.users.findFirst({ where: eq(users.id, userId) })
FindUser(rows, userId) ==
    IF \E u \in rows : u.id = userId
    THEN CHOOSE u \in rows : u.id = userId
    ELSE Undefined

\* Math.round(n / d) for d > 0: the nearest integer, a tie going up.
MathRoundFloor(n, d) == n \div d

MathRound(n, d) ==
    LET q == n \div d
        r == n % d
    IN  IF r >= d - r THEN q + 1 ELSE q

(* --------------------------- plans.getUpgrade -------------------------- *)

\* The storage and the clock as one read sees them.
Db == [teams |-> teams, subscriptions |-> subscriptions,
       subscriptionActivations |-> subscriptionActivations,
       plans |-> plans, now |-> now]

Idle == [pc |-> "idle"]

StartCall(userId, teamId, planId) ==
    [pc |-> "team", userId |-> userId, teamId |-> teamId, planId |-> planId,
     subscription |-> Undefined, subscriptionActivation |-> Undefined,
     newPlan |-> Undefined, result |-> NoResult]

Throw(c, code, message) ==
    [c EXCEPT !.pc = "done", !.subscriptionActivation = Undefined,
              !.newPlan = Undefined,
              !.result = trpcError(code, message)]

\* Lines 32-48: the team and its owner.
ResolveTeamNoOwner(c, db) ==
    LET team == FindTeam(db.teams, c.teamId)
    IN  IF team = Undefined
        THEN Throw(c, "BAD_REQUEST", "Invalid teamId")
        ELSE [c EXCEPT !.pc = "subscription"]

ResolveTeam(c, db) ==
    LET team == FindTeam(db.teams, c.teamId)
    IN  IF team = Undefined
        THEN Throw(c, "BAD_REQUEST", "Invalid teamId")
        ELSE IF team.userId # c.userId
        THEN Throw(c, "FORBIDDEN", "You don't have access to the team")
        ELSE [c EXCEPT !.pc = "subscription"]

\* Lines 50-59.
ResolveSubscription(c, db) ==
    LET subscription == FindSubscription(db.subscriptions, c.teamId)
    IN  IF subscription = Undefined
        THEN Throw(c, "NOT_FOUND", "The team doesn't have subscription")
        ELSE [c EXCEPT !.pc = "activation", !.subscription = subscription]

\* Lines 61-74: the first clock read.
ResolveActivation(c, db) ==
    LET subscriptionActivation ==
            FindActivation(db.subscriptionActivations, c.subscription.id, db.now)
    IN  IF subscriptionActivation = Undefined
        THEN Throw(c, "BAD_REQUEST", "Subscription not active")
        ELSE [c EXCEPT !.pc = "newPlan",
                       !.subscriptionActivation = subscriptionActivation]

\* Lines 76-78.
ReadNewPlan(c, db) ==
    [c EXCEPT !.pc = "currentPlan", !.newPlan = FindPlan(db.plans, c.planId)]

\* Line 91.
IsDowngradeOrEqual(newPlan, currentPlan) ==
    newPlan.monthlyPrice <= currentPlan.monthlyPrice

IsDowngrade(newPlan, currentPlan) ==
    newPlan.monthlyPrice < currentPlan.monthlyPrice

\* Lines 98-112: the second clock read and the quote.
QuoteFloor(newPlan, currentPlan, subscriptionActivation, date) ==
    LET daysRemaining ==
            MathRoundFloor(subscriptionActivation.lastActiveDate - date, DayMs)
        priceDifference == newPlan.monthlyPrice - currentPlan.monthlyPrice
    IN  [currentPlan |-> currentPlan, newPlan |-> newPlan,
         daysRemaining |-> daysRemaining,
         priceDifference |-> priceDifference,
         upgradingPrice |-> [num |-> priceDifference * daysRemaining, den |-> 30]]

Quote(newPlan, currentPlan, subscriptionActivation, date) ==
    LET daysRemaining ==
            MathRound(subscriptionActivation.lastActiveDate - date, DayMs)
        priceDifference == newPlan.monthlyPrice - currentPlan.monthlyPrice
    IN  [currentPlan |-> currentPlan, newPlan |-> newPlan,
         daysRemaining |-> daysRemaining,
         priceDifference |-> priceDifference,
         upgradingPrice |-> [num |-> priceDifference * daysRemaining, den |-> 30]]

\* Lines 80-112.
ReadCurrentPlanBySubscriptionId(c, db) ==
    LET newPlan == c.newPlan
        currentPlan == FindPlan(db.plans, c.subscription.id)
    IN  IF newPlan = Undefined \/ currentPlan = Undefined
        THEN Throw(c, "BAD_REQUEST", "Invalid plan")
        ELSE IF IsDowngrade(newPlan, currentPlan)
        THEN Throw(c, "BAD_REQUEST",
                   "Unable to calculate the price for downgrading plan")
        ELSE [c EXCEPT !.pc = "done", !.subscriptionActivation = Undefined,
                       !.newPlan = Undefined,
                       !.result = Ok(Quote(newPlan, currentPlan,
                                        c.subscriptionActivation, db.now))]

ReadCurrentPlan(c, db) ==
    LET newPlan == c.newPlan
        currentPlan == FindPlan(db.plans, c.subscription.planId)
    IN  IF newPlan = Undefined \/ currentPlan = Undefined
        THEN Throw(c, "BAD_REQUEST", "Invalid plan")
        ELSE IF IsDowngrade(newPlan, currentPlan)
        THEN Throw(c, "BAD_REQUEST",
                   "Unable to calculate the price for downgrading plan")
        ELSE [c EXCEPT !.pc = "done", !.subscriptionActivation = Undefined,
                       !.newPlan = Undefined,
                       !.result = Ok(Quote(newPlan, currentPlan,
                                        c.subscriptionActivation, db.now))]

\* One await of the handler.
UpgradeStep(c, db) ==
    CASE c.pc = "team"         -> ResolveTeam(c, db)
      [] c.pc = "subscription" -> ResolveSubscription(c, db)
      [] c.pc = "activation"   -> ResolveActivation(c, db)
      [] c.pc = "newPlan"      -> ReadNewPlan(c, db)
      [] c.pc = "currentPlan"  -> ReadCurrentPlan(c, db)
      [] OTHER                 -> c

\* The whole handler over one storage state and one clock value.
UpgradeResult(userId, teamId, planId, db) ==
    LET c0 == StartCall(userId, teamId, planId)
        c1 == UpgradeStep(c0, db)
        c2 == UpgradeStep(c1, db)
        c3 == UpgradeStep(c2, db)
        c4 == UpgradeStep(c3, db)
        c5 == UpgradeStep(c4, db)
    IN  c5.result


\* The atomic procedure: every read sees the same storage and the same clock.
getUpgradeCommits(userId, teamId, planId) ==
    LET out == UpgradeResult(userId, teamId, planId, Db)
    IN  /\ UNCHANGED <<users, teams, subscriptionActivations, plans, now, call>>
        /\ res' = Response("getUpgrade", <<userId, teamId, planId>>, out)
        /\ subscriptions' =
               IF out.code = "OK"
               THEN [i \in DOMAIN subscriptions |->
                        IF subscriptions[i].teamId = teamId
                        THEN [subscriptions[i] EXCEPT !.planId = planId]
                        ELSE subscriptions[i]]
               ELSE subscriptions

getUpgrade(userId, teamId, planId) ==
    /\ UNCHANGED <<users, teams, subscriptions, subscriptionActivations,
                   plans, now, call>>
    /\ res' = Response("getUpgrade", <<userId, teamId, planId>>,
                       UpgradeResult(userId, teamId, planId, Db))

\* The procedure one await at a time (SpecConc): a call is started ...
beginUpgrade(userId, teamId, planId) ==
    /\ call.pc \in {"idle", "done"}
    /\ call' = StartCall(userId, teamId, planId)
    /\ UNCHANGED <<users, teams, subscriptions, subscriptionActivations,
                   plans, now, res>>

\* ... and each step is one read of the storage as it is at that moment.
stepUpgrade ==
    /\ call.pc \notin {"idle", "done"}
    /\ call' = UpgradeStep(call, Db)
    /\ UNCHANGED <<users, teams, subscriptions, subscriptionActivations,
                   plans, now, res>>

(* ------------------------------ plans.get ------------------------------ *)

\* Lines 12-20; fault: db.query.plans.findMany() throws.
PlansGetRethrows(rows, fault) ==
    IF fault
    THEN trpcError("INTERNAL_SERVER_ERROR", "Error fetching plans")
    ELSE Ok(rows)

PlansGet(rows, fault) ==
    IF fault THEN Ok(<<>>) ELSE Ok(rows)

get(fault) ==
    /\ UNCHANGED <<users, teams, subscriptions, subscriptionActivations,
                   plans, now, call>>
    /\ res' = Response("get", <<>>, PlansGet(plans, fault))

(* ----------------------- plans.create / plans.update ------------------- *)

\* Lines 126-134 and 163-171: !userInDb?.isAdmin
IsRegistered(userId) == FindUser(users, userId) # Undefined

IsAdmin(userId) ==
    LET userInDb == FindUser(users, userId)
    IN  userInDb # Undefined /\ userInDb.isAdmin

OnlyAdmin == trpcError("FORBIDDEN", "Only admin allowed to access")

Success == Ok([success |-> TRUE])

\* Lines 136-144: db.insert(schema.plans).values({...}); ids autoincrement.
InsertPlan(rows, input) ==
    Append(rows, [id |-> Len(rows) + 1, name |-> input.name,
                  monthlyPrice |-> input.monthlyPrice,
                  yearlyPrice |-> input.yearlyPrice])

\* Lines 173-181: db.update(schema.plans).set({...}).where(eq(plans.id, id))
UpdatePlanNoWhere(rows, id, input) ==
    [i \in DOMAIN rows |->
        [rows[i] EXCEPT !.name = input.name,
                        !.monthlyPrice = input.monthlyPrice,
                        !.yearlyPrice = input.yearlyPrice]]

UpdatePlanUpsert(rows, id, input) ==
    IF \E i \in DOMAIN rows : rows[i].id = id
    THEN [i \in DOMAIN rows |->
            IF rows[i].id = id
            THEN [rows[i] EXCEPT !.name = input.name,
                                 !.monthlyPrice = input.monthlyPrice,
                                 !.yearlyPrice = input.yearlyPrice]
            ELSE rows[i]]
    ELSE InsertPlan(rows, input)

UpdatePlan(rows, id, input) ==
    [i \in DOMAIN rows |->
        IF rows[i].id = id
        THEN [rows[i] EXCEPT !.name = input.name,
                             !.monthlyPrice = input.monthlyPrice,
                             !.yearlyPrice = input.yearlyPrice]
        ELSE rows[i]]

\* Lines 122-149.
create(userId, input) ==
    /\ UNCHANGED <<users, teams, subscriptions, subscriptionActivations,
                   now, call>>
    /\ IF ~ IsAdmin(userId)
       THEN /\ res' = Response("create", <<>>, OnlyAdmin)
            /\ plans' = plans
       ELSE /\ Len(plans) < MaxPlans
            /\ plans' = InsertPlan(plans, input)
            /\ res' = Response("create", <<>>, Success)

\* Lines 159-185.
update(userId, id, input) ==
    /\ UNCHANGED <<users, teams, subscriptions, subscriptionActivations,
                   now, call>>
    /\ IF ~ IsAdmin(userId)
       THEN /\ res' = Response("update", <<>>, OnlyAdmin)
            /\ plans' = plans
       ELSE /\ plans' = UpdatePlan(plans, id, input)
            /\ res' = Response("update", <<>>, Success)

(* ------------------- the rest of the application ----------------------- *)

\* db.update(schema.users).set({ isAdmin }).where(eq(users.email, user.email))
updateUser(isAdmin) ==
    /\ users' = {[u EXCEPT !.isAdmin = isAdmin] : u \in users}
    /\ UNCHANGED <<teams, subscriptions, subscriptionActivations, plans,
                   now, call>>
    /\ res' = NoResponse

\* teams.create({ name }) by a registered user: a team that user owns.
teamsCreate(userId) ==
    /\ Len(teams) + 1 \in TeamIds
    /\ teams' = Append(teams, [id |-> Len(teams) + 1, userId |-> userId])
    /\ UNCHANGED <<users, subscriptions, subscriptionActivations, plans,
                   now, call>>
    /\ res' = NoResponse

\* db.insert(schema.subscriptions).values({ teamId, planId, ... })
insertSubscription(teamId, planId) ==
    /\ Len(subscriptions) + 1 \in SubscriptionIds
    /\ FindTeam(teams, teamId) # Undefined
    /\ subscriptions' = Append(subscriptions,
           [id |-> Len(subscriptions) + 1, teamId |-> teamId, planId |-> planId])
    /\ UNCHANGED <<users, teams, subscriptionActivations, plans, now, call>>
    /\ res' = NoResponse

\* db.insert(schema.subscriptionActivations).values({ subscriptionId,
\* activationDate: new Date(), lastActiveDate: activationDate + days })
insertActivation(subscriptionId, days) ==
    /\ Len(subscriptionActivations) < MaxActivations
    /\ \E i \in DOMAIN subscriptions : subscriptions[i].id = subscriptionId
    /\ subscriptionActivations' = Append(subscriptionActivations,
           [id |-> Len(subscriptionActivations) + 1,
            subscriptionId |-> subscriptionId,
            lastActiveDate |-> now + days * DayMs])
    /\ UNCHANGED <<users, teams, subscriptions, plans, now, call>>
    /\ res' = NoResponse

\* Time passes: the next new Date() reads a later instant.
Tick(t) ==
    /\ t > now
    /\ now' = t
    /\ UNCHANGED <<users, teams, subscriptions, subscriptionActivations,
                   plans, call>>
    /\ res' = NoResponse

(* --------------------------- specifications ---------------------------- *)

\* After resetDb() and auth.register(user): one user, not an admin.
Init ==
    /\ users = {[id |-> 1, isAdmin |-> FALSE]}
    /\ teams = <<>>
    /\ subscriptions = <<>>
    /\ subscriptionActivations = <<>>
    /\ plans = <<>>
    /\ now = 0
    /\ res = NoResponse
    /\ call = Idle

Environment(Days) ==
    \/ \E isAdmin \in BOOLEAN : updateUser(isAdmin)
    \/ \E u \in users : teamsCreate(u.id)
    \/ \E teamId \in TeamIds, planId \in 1 .. MaxPlans :
           insertSubscription(teamId, planId)
    \/ \E subscriptionId \in SubscriptionIds, days \in Days :
           insertActivation(subscriptionId, days)
    \/ \E t \in ClockPoints : Tick(t)

Writes(Inputs) ==
    \/ \E userId \in Callers, input \in Inputs : create(userId, input)
    \/ \E userId \in Callers, id \in PlanIdInputs, input \in Inputs :
           update(userId, id, input)

\* The whole application, with the two plans of the upgrade tests.
Next ==
    \/ Environment(ActivationDays)
    \/ Writes(QuotedPlanInputs)
    \/ \E fault \in BOOLEAN : get(fault)
    \/ \E userId \in Callers, teamId \in TeamIdInputs, planId \in PlanIdInputs :
           getUpgrade(userId, teamId, planId)

Spec == Init /\ [][Next]_vars

\* The administration of the plans alone, with the four plans of the tests.
NextPlans ==
    \/ \E isAdmin \in BOOLEAN : updateUser(isAdmin)
    \/ Writes(PlanInputs)
    \/ \E fault \in BOOLEAN : get(fault)

SpecPlans == Init /\ [][NextPlans]_vars

\* The requests whose reads the clock and plans.update can come between
\* are those of the team's owner for the team; the paid windows are short
\* ones, which the clock can leave behind.
NextConc ==
    \/ Environment(ShortActivationDays)
    \/ Writes(QuotedPlanInputs)
    \/ \E u \in users, teamId \in TeamIds, planId \in PlanIdInputs :
           beginUpgrade(u.id, teamId, planId)
    \/ stepUpgrade

SpecConc == Init /\ [][NextConc]_vars

(* ------------------------------- claims -------------------------------- *)

Downgrading == "Unable to calculate the price for downgrading plan"

\* The caller and the input of the getUpgrade that res answers.
Requester == res.args[1]
TeamId == res.args[2]
PlanId == res.args[3]

Answered(op) == res.op = op

\* The validation steps of getUpgrade, stated over the tables.
NoTeam(teamId) ==
    ~ \E i \in DOMAIN teams : teams[i].id = teamId

NotOwner(userId, teamId) ==
    \E i \in DOMAIN teams : teams[i].id = teamId /\ teams[i].userId # userId

NoSubscription(teamId) ==
    ~ \E i \in DOMAIN subscriptions : subscriptions[i].teamId = teamId

NotActive(teamId) ==
    ~ \E i \in DOMAIN subscriptions, j \in DOMAIN subscriptionActivations :
          /\ subscriptions[i].teamId = teamId
          /\ subscriptionActivations[j].subscriptionId = subscriptions[i].id
          /\ subscriptionActivations[j].lastActiveDate >= now

PlanMissing(teamId, planId) ==
    \/ ~ \E k \in DOMAIN plans : plans[k].id = planId
    \/ \E i \in DOMAIN subscriptions :
          /\ subscriptions[i].teamId = teamId
          /\ ~ \E k \in DOMAIN plans : plans[k].id = subscriptions[i].planId

Cheaper(teamId, planId) ==
    \E i \in DOMAIN subscriptions, k \in DOMAIN plans, m \in DOMAIN plans :
        /\ subscriptions[i].teamId = teamId
        /\ plans[k].id = planId
        /\ plans[m].id = subscriptions[i].planId
        /\ plans[k].monthlyPrice < plans[m].monthlyPrice

FirstFailure(userId, teamId, planId) ==
    IF NoTeam(teamId) THEN <<"BAD_REQUEST", "Invalid teamId">>
    ELSE IF NotOwner(userId, teamId)
    THEN <<"FORBIDDEN", "You don't have access to the team">>
    ELSE IF NoSubscription(teamId)
    THEN <<"NOT_FOUND", "The team doesn't have subscription">>
    ELSE IF NotActive(teamId)
    THEN <<"BAD_REQUEST", "Subscription not active">>
    ELSE IF PlanMissing(teamId, planId)
    THEN <<"BAD_REQUEST", "Invalid plan">>
    ELSE IF Cheaper(teamId, planId)
    THEN <<"BAD_REQUEST", Downgrading>>
    ELSE <<"OK", "">>

StepsOneToFivePass(userId, teamId, planId) ==
    /\ ~ NoTeam(teamId)
    /\ ~ NotOwner(userId, teamId)
    /\ ~ NoSubscription(teamId)
    /\ ~ NotActive(teamId)
    /\ ~ PlanMissing(teamId, planId)

\* C1: getUpgrade answers with the error of the lowest-numbered step that
\* fails (team, owner, subscription, activation, plans, downgrade), with the
\* exact code and message, and succeeds exactly when no step fails.
C1_FirstFailingStep ==
    Answered("getUpgrade")
        => <<res.out.code, res.out.message>>
               = FirstFailure(Requester, TeamId, PlanId)

\* A request by someone who is not the owner, for a plan that is not stored
\* and a team without a subscription: steps 2, 3, 4 and 5 fail and step 2
\* is the one reported.
C1_Witness ==
    /\ Answered("getUpgrade")
    /\ res.out = trpcError("FORBIDDEN", "You don't have access to the team")
    /\ NotOwner(Requester, TeamId)
    /\ NoSubscription(TeamId)
    /\ NotActive(TeamId)
    /\ PlanMissing(TeamId, PlanId)

\* C2: a successful getUpgrade returns priceDifference = new - current
\* monthly price, daysRemaining = (lastActiveDate - now) / 86400000 rounded
\* to the nearest whole day (a tie going up), for the first activation of
\* the subscription that is still active, and upgradingPrice =
\* (priceDifference / 30) * daysRemaining.
C2_Proration ==
    (Answered("getUpgrade") /\ res.out.code = "OK")
        => \E i \in DOMAIN subscriptions,
              j \in DOMAIN subscriptionActivations,
              k \in DOMAIN plans, m \in DOMAIN plans :
             LET v == res.out.value
                 a == subscriptionActivations
                 left == a[j].lastActiveDate - now - v.daysRemaining * 86400000
             IN  /\ subscriptions[i].teamId = TeamId
                 /\ a[j].subscriptionId = subscriptions[i].id
                 /\ a[j].lastActiveDate >= now
                 /\ \A h \in 1 .. (j - 1) :
                        ~ (/\ a[h].subscriptionId = subscriptions[i].id
                           /\ a[h].lastActiveDate >= now)
                 /\ plans[k].id = PlanId
                 /\ plans[m].id = subscriptions[i].planId
                 /\ v.newPlan = plans[k]
                 /\ v.currentPlan = plans[m]
                 /\ v.priceDifference
                        = plans[k].monthlyPrice - plans[m].monthlyPrice
                 /\ - 86400000 <= 2 * left
                 /\ 2 * left < 86400000
                 /\ v.upgradingPrice.den > 0
                 /\ 30 * v.upgradingPrice.num
                        = v.priceDifference * v.daysRemaining
                              * v.upgradingPrice.den

\* The example of the specification, a moment after the activation was
\* stored: from 59 to 199 with a millisecond less than 14 days left gives
\* 14 days, 140 and (140 / 30) * 14.
C2_Witness ==
    /\ Answered("getUpgrade")
    /\ res.out.code = "OK"
    /\ res.out.value.currentPlan.monthlyPrice = 59
    /\ res.out.value.newPlan.monthlyPrice = 199
    /\ res.out.value.daysRemaining = 14
    /\ res.out.value.priceDifference = 140
    /\ res.out.value.upgradingPrice = [num |-> 140 * 14, den |-> 30]
    /\ Len(subscriptionActivations) = 1
    /\ subscriptionActivations[1].lastActiveDate - now = 14 * 86400000 - 1

\* C3: create and update by a caller who has no user row, or whose row is
\* not an administrator's, fail with FORBIDDEN "Only admin allowed to
\* access" and leave the plans as they were.
C3_OnlyAdminWrites ==
    [][\A userId \in Callers, id \in PlanIdInputs, input \in PlanInputs :
          (~ \E u \in users : u.id = userId /\ u.isAdmin)
              => /\ create(userId, input)
                     => /\ res'.out.code = "FORBIDDEN"
                        /\ res'.out.message = "Only admin allowed to access"
                        /\ plans' = plans
                 /\ update(userId, id, input)
                     => /\ res'.out.code = "FORBIDDEN"
                        /\ res'.out.message = "Only admin allowed to access"
                        /\ plans' = plans]_vars

\* An update was refused while plans are stored, the registered user being
\* no administrator any more.
C3_Witness ==
    /\ Answered("update")
    /\ res.out.code = "FORBIDDEN"
    /\ plans # <<>>
    /\ \A u \in users : ~ u.isAdmin

\* C4: an administrator's create adds exactly one plan, with the input's
\* name and prices and a new id, and leaves the others alone; an
\* administrator's update of an existing id gives that plan the input's name
\* and prices, keeps its id, and leaves the others and their number alone.
C4_AdminWrites ==
    [][res'.op \in {"create", "update"} =>
          \A userId \in Callers, id \in PlanIdInputs, input \in PlanInputs :
              (\E u \in users : u.id = userId /\ u.isAdmin)
                  => /\ create(userId, input)
                         => /\ res'.out = Ok([success |-> TRUE])
                            /\ Len(plans') = Len(plans) + 1
                            /\ \A i \in DOMAIN plans : plans'[i] = plans[i]
                            /\ plans'[Len(plans')].name = input.name
                            /\ plans'[Len(plans')].monthlyPrice
                                   = input.monthlyPrice
                            /\ plans'[Len(plans')].yearlyPrice
                                   = input.yearlyPrice
                            /\ \A i \in DOMAIN plans :
                                   plans[i].id # plans'[Len(plans')].id
                     /\ (update(userId, id, input)
                            /\ \E i \in DOMAIN plans : plans[i].id = id)
                         => /\ res'.out = Ok([success |-> TRUE])
                            /\ Len(plans') = Len(plans)
                            /\ \A i \in DOMAIN plans :
                                   IF plans[i].id = id
                                   THEN plans'[i] = [id |-> id,
                                            name |-> input.name,
                                            monthlyPrice |-> input.monthlyPrice,
                                            yearlyPrice |-> input.yearlyPrice]
                                   ELSE plans'[i] = plans[i]]_vars

\* An update went through with two plans stored that differ from one
\* another.
C4_Witness ==
    /\ Answered("update")
    /\ res.out.code = "OK"
    /\ Len(plans) = 2
    /\ plans[1].name # plans[2].name

\* C5: once steps 1 to 5 pass, getUpgrade fails with the downgrade error
\* exactly when the new monthly price is strictly lower; with equal prices
\* it succeeds with priceDifference 0 and upgradingPrice 0.
C5_DowngradeGuard ==
    (Answered("getUpgrade") /\ StepsOneToFivePass(Requester, TeamId, PlanId))
        => \E i \in DOMAIN subscriptions,
              k \in DOMAIN plans, m \in DOMAIN plans :
             /\ subscriptions[i].teamId = TeamId
             /\ plans[k].id = PlanId
             /\ plans[m].id = subscriptions[i].planId
             /\ (res.out.message = Downgrading)
                    <=> (plans[k].monthlyPrice < plans[m].monthlyPrice)
             /\ (res.out.code # "OK") <=> (res.out.message = Downgrading)
             /\ (plans[k].monthlyPrice = plans[m].monthlyPrice)
                    => /\ res.out.code = "OK"
                       /\ res.out.value.priceDifference = 0
                       /\ res.out.value.upgradingPrice.num = 0

\* A quote between two different plans of the same price, with days left.
C5_Witness ==
    /\ Answered("getUpgrade")
    /\ res.out.code = "OK"
    /\ res.out.value.newPlan.id # res.out.value.currentPlan.id
    /\ res.out.value.newPlan.monthlyPrice
           = res.out.value.currentPlan.monthlyPrice
    /\ res.out.value.priceDifference = 0
    /\ res.out.value.upgradingPrice.num = 0
    /\ res.out.value.daysRemaining > 0

\* C6: getUpgrade, whatever it answers, leaves users, teams, subscriptions,
\* activations and plans as they were, and the same call made again at the
\* same clock value gives the same answer.
C6_PureQuote ==
    [][res'.op = "getUpgrade"
          => /\ storage' = storage
             /\ (Answered("getUpgrade") /\ res.args = res'.args)
                    => res' = res]_vars

\* A quote for another plan than the subscription's was given, and the
\* subscription is still on its plan.
C6_Witness ==
    /\ Answered("getUpgrade")
    /\ res.out.code = "OK"
    /\ PlanId # res.out.value.currentPlan.id
    /\ \E i \in DOMAIN subscriptions :
           /\ subscriptions[i].teamId = TeamId
           /\ subscriptions[i].planId = res.out.value.currentPlan.id

\* C7: plans.get returns the stored plans in storage order, returns the
\* empty sequence without an error when the read fails, and changes nothing.
C7_List ==
    [][\A fault \in BOOLEAN :
          get(fault)
              => /\ res'.out.code = "OK"
                 /\ res'.out.value = (IF fault THEN <<>> ELSE plans)
                 /\ storage' = storage]_vars

\* The read failed while two plans are stored.
C7_Witness ==
    /\ Answered("get")
    /\ res.out = Ok(<<>>)
    /\ Len(plans) = 2

\* C8: an administrator's update of an id that no plan has answers success
\* and leaves the plans as they were.
C8_UpdateMissingId ==
    [][\A userId \in Callers, id \in PlanIdInputs, input \in PlanInputs :
          (/\ \E u \in users : u.id = userId /\ u.isAdmin
           /\ ~ \E i \in DOMAIN plans : plans[i].id = id
           /\ update(userId, id, input))
              => /\ res'.out = Ok([success |-> TRUE])
                 /\ plans' = plans]_vars

\* An update was acknowledged with no plan stored at all.
C8_Witness ==
    /\ Answered("update")
    /\ res.out = Ok([success |-> TRUE])
    /\ plans = <<>>

\* C9: a successful getUpgrade has daysRemaining >= 0, priceDifference >= 0
\* and upgradingPrice >= 0, also when the clock moves between the activity
\* check and the computation of daysRemaining.
C9_NonNegativeQuote ==
    (call.pc = "done" /\ call.result.code = "OK")
        => /\ call.result.value.daysRemaining >= 0
           /\ call.result.value.priceDifference >= 0
           /\ call.result.value.upgradingPrice.num >= 0

\* C10, as claimed: a request for the plan the subscription is on never
\* fails with the downgrade error and returns priceDifference 0 and
\* newPlan = currentPlan, whatever updates run between its reads.
C10_ConsistentQuote ==
    (/\ call.pc = "done"
     /\ call.subscription # Undefined
     /\ call.planId = call.subscription.planId)
        => /\ call.result.message # Downgrading
           /\ call.result.code = "OK"
                  => /\ call.result.value.priceDifference = 0
                     /\ call.result.value.newPlan
                            = call.result.value.currentPlan

\* C10, amended: newPlan is the row stored when it is read and currentPlan
\* the row stored when it is read; when the row of the requested plan is the
\* same at both reads, a request for the plan the subscription is on does
\* not fail with the downgrade error, and with the plan stored it succeeds
\* with priceDifference 0 and newPlan = currentPlan.
C10_QuoteOfTwoReads ==
    [][(/\ call.pc = "currentPlan"
        /\ stepUpgrade
        /\ call.planId = call.subscription.planId
        /\ \/ /\ call.newPlan = Undefined
              /\ ~ \E k \in DOMAIN plans : plans[k].id = call.planId
           \/ \E k \in DOMAIN plans :
                  plans[k].id = call.planId /\ plans[k] = call.newPlan)
          => /\ call'.pc = "done"
             /\ call'.result.message # Downgrading
             /\ call.newPlan # Undefined
                    => /\ call'.result.code = "OK"
                       /\ call'.result.value.priceDifference = 0
                       /\ call'.result.value.newPlan = call.newPlan
                       /\ call'.result.value.currentPlan = call.newPlan]_vars

\* A request for the current plan was answered with priceDifference 0, the
\* last procedure served before it returned being an update.
C10_Witness ==
    /\ call.pc = "done"
    /\ call.result.code = "OK"
    /\ call.planId = call.subscription.planId
    /\ call.result.value.priceDifference = 0
    /\ call.result.value.newPlan = call.result.value.currentPlan
    /\ Answered("update")
    /\ res.out.code = "OK"

=============================================================================
